---- MODULE Spec2Model ----
(***************************************************************************)
(* VocalFlow: a browser application in which an administrator scripts a   *)
(* sequence of video questions (AdminPanel), and a candidate records a    *)
(* video answer to each (InterviewSession + VideoRecorder); each answer   *)
(* is analysed by a hosted model (analyzeVideoResponse) and the results   *)
(* are POSTed to a webhook.                                               *)
(*                                                                         *)
(* The components are React function components.  One action of this      *)
(* model is one browser task: an event handler (or a promise continuation *)
(* with the microtasks it triggers), the re-render it causes and the      *)
(* effects that re-render runs.  A handler reads the state captured by    *)
(* the render that created it (its closure); where that differs from the  *)
(* current state the captured value is kept explicitly.                   *)
(*                                                                         *)
(* Null references are 0: stream, clip and recorder identities are        *)
(* positive naturals.                                                      *)
(***************************************************************************)
EXTENDS Integers, Sequences, FiniteSets, TLC

\* ------------------------------------------------------------------ bounds

\* Largest number of identifiers crypto.randomUUID() hands out while a flow
\* is edited.
MaxUuids == 3
\* Largest number of analysis calls a client of the analyzer makes.
MaxCalls == 3

\* Largest number of questions of the flow a session runs over.
MaxQuestions == 2
\* Largest number of recordings of answers (MediaRecorder objects) started.
MaxTakes == 2
\* Largest number of interview sessions started.
MaxSessions == 2
\* Largest number of recordings of prompts started in AdminPanel.
MaxPrompts == 3
\* The add-question form is opened while fewer getUserMedia calls and live
\* streams of unmounted recorders than this are left behind.
MaxOrphans == 1

\* --------------------------------------------------------------- constants

\* maxDurationSeconds passed by InterviewSession to its VideoRecorder.
AnswerMaxDuration == 90
\* The default of maxDurationSeconds, which the VideoRecorder of AdminPanel
\* runs with.
PromptMaxDuration == 60

\* ----------------------------------------------------------------- strings

\* A string is a sequence of one-character strings.
HTTP == <<"h", "t", "t", "p">>
HTTP_SCHEME == <<"h", "t", "t", "p", ":", "/", "/">>
HTTPS_SCHEME == <<"h", "t", "t", "p", "s", ":", "/", "/">>
HTTP_URL == HTTP_SCHEME \o <<"x">>
HTTPS_URL == HTTPS_SCHEME \o <<"x">>

\* String.prototype.startsWith
StartsWith(s, p) ==
    /\ Len(p) <= Len(s)
    /\ \A i \in 1..Len(p) : s[i] = p[i]

\* The characters String.prototype.trim strips, all 25 of them: WhiteSpace
\* of ECMAScript (tab, vertical tab, form feed, the byte order mark U+FEFF
\* and the space separators of Unicode: space, no-break space, U+1680,
\* U+2000 to U+200A, U+202F, U+205F, U+3000) and LineTerminator (line
\* feed, carriage return, U+2028, U+2029).  A character that has no escape
\* here is written by its code point.
VT == "U+000B"
NBSP == "U+00A0"
WhiteSpace ==
    {"\t", VT, "\f", "U+FEFF",
     " ", NBSP, "U+1680",
     "U+2000", "U+2001", "U+2002", "U+2003", "U+2004", "U+2005", "U+2006",
     "U+2007", "U+2008", "U+2009", "U+200A",
     "U+202F", "U+205F", "U+3000",
     "\n", "\r", "U+2028", "U+2029"}

RECURSIVE TrimStart(_)
TrimStart(s) ==
    IF s # << >> /\ Head(s) \in WhiteSpace THEN TrimStart(Tail(s)) ELSE s

RECURSIVE TrimEnd(_)
TrimEnd(s) ==
    IF s # << >> /\ s[Len(s)] \in WhiteSpace
    THEN TrimEnd(SubSeq(s, 1, Len(s) - 1))
    ELSE s

\* String.prototype.trim
Trim(s) == TrimEnd(TrimStart(s))

\* ------------------------------------------------- Remote Analyzer Client

\* The value the catch block of analyzeVideoResponse returns.
Sentinel ==
    [transcription |-> "Error analyzing video.",
     sentiment |-> "Unknown",
     keyPoints |-> <<"Analysis failed">>,
     score |-> 0]

\* A well-formed response of the remote service.
GoodResult ==
    [transcription |-> "Hi",
     sentiment |-> "Confident",
     keyPoints |-> <<"clarity">>,
     score |-> 80]

\* JSON null: a value without any field.
JsonNull == << >>

\* The response texts the remote service is taken to answer with: an empty
\* text, a text that is not JSON, and two JSON documents.
ResponseTexts == {"", "not json", "null", "good"}

\* The outcome of a call that may throw: a value or an exception.
Ok(v) == [threw |-> FALSE, value |-> v]
Throw == [threw |-> TRUE, value |-> << >>]

\* getClient: throws when the API key is missing.
getClient(hasKey) == IF hasKey THEN Ok("client") ELSE Throw

\* JSON.parse on the response texts.
JSONParse(text) ==
    CASE text = "good" -> Ok(GoodResult)
      [] text = "null" -> Ok(JsonNull)
      [] OTHER -> Throw

\* The environment of one analysis call: whether encoding the clip
\* succeeds, whether the request succeeds, and the response text.  A step
\* that fails hides the later ones, so one environment stands for each
\* first failure.
AnalyzerEnvs ==
    {[encodes |-> FALSE, transport |-> TRUE, text |-> "good"],
     [encodes |-> TRUE, transport |-> FALSE, text |-> "good"]}
    \cup [encodes : {TRUE}, transport : {TRUE}, text : ResponseTexts]

\* The body of the try block of analyzeVideoResponse.
analyzeTry(hasKey, env) ==
    IF getClient(hasKey).threw THEN Throw
    ELSE IF ~env.encodes THEN Throw
    ELSE IF ~env.transport THEN Throw
    ELSE IF env.text = "" THEN Throw
    ELSE JSONParse(env.text)

\* analyzeVideoResponse, a mutant whose credential check is outside the
\* try block.
analyzeVideoResponse_nokeythrows(hasKey, env) ==
    IF getClient(hasKey).threw THEN Throw
    ELSE IF analyzeTry(hasKey, env).threw THEN Ok(Sentinel)
    ELSE analyzeTry(hasKey, env)

\* analyzeVideoResponse: the try block, and the catch block that turns
\* every exception into the sentinel.
analyzeVideoResponse(hasKey, env) ==
    IF analyzeTry(hasKey, env).threw THEN Ok(Sentinel)
    ELSE analyzeTry(hasKey, env)

\* ------------------------------------------------------------------ state

VARIABLES
    \* environment
    hasKey,                \* the API key of the analyzer is set
    storage,               \* localStorage item vocalflow_active_flow (<< >>: none)
    uuids,                 \* number of crypto.randomUUID() results so far
    \* App
    mode,                  \* AppMode
    currentFlow,           \* the InterviewFlow in use (<< >>: null)
    isDarkMode,
    \* AdminPanel state (the initial values while it is unmounted)
    title,
    webhookUrl,
    questions,
    isAddingQuestion,      \* the add-question form, with its VideoRecorder, shows
    newQuestionText,
    newQuestionVideo,      \* clip identity, 0 for null
    adminAlert,            \* the alert the last step of AdminPanel raised ("": none)
    \* Remote Analyzer Client
    calls,                 \* the analysis calls a client made, and what came back
    \* InterviewSession state (the initial values while none is mounted)
    currentQuestionIndex,
    answers,
    currentAnswerBlob,     \* clip identity, 0 for null
    isProcessing,
    handler,               \* the handleNext call in flight of the mounted session
    orphans,               \* the handleNext calls in flight of unmounted sessions
    \* what each session started so far did to the outside, by session number
    posts,                 \* the webhook requests issued (their payloads)
    webhookOutcome,        \* how the last webhook request ended
    completed,             \* number of onComplete invocations
    doneAnswers,           \* the accumulator handleNext held when it called onComplete
    abandoned,             \* the candidate left the session before onComplete
    \* VideoRecorder
    rec,                   \* the component state of the mounted instance
    startResult,           \* how the startRecording call of the last step ended
    \* browser media
    pending,               \* getUserMedia calls outstanding
    streams,               \* the live MediaStreams something refers to, and whose
    leaked,                \* how many live MediaStreams nothing refers to, and whose
    recorders              \* every MediaRecorder created

sessionComponent == <<currentQuestionIndex, answers, currentAnswerBlob, isProcessing>>
sessionLog == <<posts, webhookOutcome, completed, doneAnswers, abandoned>>
sessionState == <<sessionComponent, handler, orphans, sessionLog>>
sessionVars == <<hasKey, currentFlow, mode, sessionState>>
recorderVars == <<rec, startResult, pending, streams, leaked, recorders>>
adminForm ==
    <<title, webhookUrl, questions, isAddingQuestion, newQuestionText,
      newQuestionVideo>>
adminVars == <<storage, uuids, adminForm, adminAlert>>
\* What no step of a VideoRecorder touches, but for the clip it hands over.
outsideVars == <<adminVars, calls, isDarkMode>>
vars == <<sessionVars, recorderVars, outsideVars>>

\* The flow prop App passes to InterviewSession.
flow == currentFlow

\* The number of the session started last: the mounted one in INTERVIEW mode.
session == Len(posts)

\* ------------------------------------------------------------------- flows

Question(k) ==
    [id |-> <<"uuid", k>>, order |-> k, text |-> <<"Q", ToString(k)>>,
     videoUrl |-> <<"blob", k>>]

\* The flows a session is run over: what handleSave persists, with 1 to
\* MaxQuestions questions of distinct ids and with or without a webhook.
Flows ==
    {[id |-> <<"uuid", n + 1>>, title |-> <<"T">>, webhookUrl |-> u,
      questions |-> [k \in 1..n |-> Question(k)]] :
        n \in 1..MaxQuestions, u \in {<< >>, HTTPS_URL}}

\* --------------------------------------------------- VideoRecorder helpers

\* useState initial values of VideoRecorder.
InitialRecorderState ==
    [isRecording |-> FALSE, recordedBlob |-> 0, previewUrl |-> 0, timer |-> 0,
     stream |-> 0, error |-> "", mediaRecorderRef |-> 0]

\* A VideoRecorder is rendered by InterviewSession unless the processing
\* screen replaces it, and by AdminPanel in its add-question form.
RecorderMounted ==
    \/ mode = "INTERVIEW" /\ ~isProcessing
    \/ mode = "ADMIN" /\ isAddingQuestion

\* maxDurationSeconds of the mounted VideoRecorder: InterviewSession passes
\* 90, AdminPanel leaves the default.
maxDurationSeconds ==
    IF mode = "ADMIN" THEN PromptMaxDuration ELSE AnswerMaxDuration

\* The component whose state setter the onRecordingComplete prop of the
\* mounted VideoRecorder calls.
Parent == IF mode = "ADMIN" THEN "admin" ELSE "session"

\* A live stream is "mounted" when the mounted VideoRecorder acquired it,
\* "torn down" when an instance that is unmounted did.  Only a stream that
\* the component state or the closure of a MediaRecorder that is not yet
\* inactive refers to can ever be stopped: the others are counted in leaked.
Refs(r, recs) ==
    {r.stream} \cup
    {recs[i].stream : i \in {j \in 1..Len(recs) : recs[j].state # "inactive"}}

\* Number of live streams the mounted instance acquired, and number of
\* those unmounted instances acquired.
LiveOf(who) ==
    Cardinality({k \in DOMAIN streams : streams[k] = who})
    + (IF who = "mounted" THEN leaked.mounted ELSE leaked.torn)

\* stream.getTracks().forEach(track => track.stop()) on stream s (0: none).
StopTracks(ss, s) == [k \in DOMAIN ss \ {s} |-> ss[k]]

\* The identity of the next stream getUserMedia returns.
NewStream ==
    CHOOSE k \in 1..(Cardinality(DOMAIN streams) + Len(recorders) + 2) :
        /\ k \notin DOMAIN streams \cup Refs(rec, recorders)
        /\ \A j \in 1..(k - 1) : j \in DOMAIN streams \cup Refs(rec, recorders)

\* The live streams ss and the leaks lk, once the component state is r and
\* the recorders are recs: a stream nothing refers to any more is a leak.
Held(ss, r, recs) == [k \in DOMAIN ss \cap Refs(r, recs) |-> ss[k]]
Lost(ss, r, recs, who) ==
    Cardinality({k \in DOMAIN ss \ Refs(r, recs) : ss[k] = who})
Leaks(ss, lk, r, recs) ==
    [mounted |-> lk.mounted + Lost(ss, r, recs, "mounted"),
     torn |-> lk.torn + Lost(ss, r, recs, "torn down")]

\* The streams with the streams of the unmounted instance marked.
TornDown(ss) == [k \in DOMAIN ss |-> "torn down"]

\* The stream the unmount cleanup of VideoRecorder reads: the effect has no
\* dependencies, so its closure is the one of the first render.
CleanupCapturedStream == InitialRecorderState.stream

\* A VideoRecorder instance mounts: fresh state; the auto-acquire effect
\* runs (no clip, no stream) and calls startCamera.
MountRecorder ==
    /\ rec' = InitialRecorderState
    /\ startResult' = "none"
    /\ pending' = [cur |-> 1, orphan |-> pending.orphan + pending.cur]
    /\ UNCHANGED <<streams, leaked, recorders>>

\* The MediaRecorders once the VideoRecorder that created them is
\* unmounted, and (page) the component that rendered it as well: the state
\* setters of an unmounted component do nothing.
Unmounted(recs, page) ==
    [r \in 1..Len(recs) |->
        [recs[r] EXCEPT !.mounted = FALSE,
                        !.parent = IF page THEN "none" ELSE @]]

\* The mounted VideoRecorder unmounts, alone or (page) with the component
\* that renders it: the cleanup effect runs with the stream it captured,
\* the timer effect clears its interval; getUserMedia calls and
\* MediaRecorders of the instance live on.
UnmountRecorder(page) ==
    /\ rec' = InitialRecorderState
    /\ startResult' = "none"
    /\ pending' = [cur |-> 0, orphan |-> pending.orphan + pending.cur]
    /\ recorders' = Unmounted(recorders, page)
    /\ LET ss == TornDown(StopTracks(streams, CleanupCapturedStream))
           lk == [mounted |-> 0, torn |-> leaked.torn + leaked.mounted]
       IN /\ streams' = Held(ss, rec', recorders')
          /\ leaked' = Leaks(ss, lk, rec', recorders')

\* setMode(HOME) of App, in whatever mode: the InterviewSession or the
\* AdminPanel that is mounted unmounts, with its VideoRecorder if it
\* renders one, and its state is gone.
UnmountPage ==
    /\ mode' = "HOME"
    /\ currentQuestionIndex' = 0
    /\ answers' = << >>
    /\ currentAnswerBlob' = 0
    /\ isProcessing' = FALSE
    /\ title' = << >>
    /\ webhookUrl' = << >>
    /\ questions' = << >>
    /\ isAddingQuestion' = FALSE
    /\ newQuestionText' = << >>
    /\ newQuestionVideo' = 0
    /\ adminAlert' = ""
    /\ IF RecorderMounted
       THEN UnmountRecorder(TRUE)
       ELSE /\ recorders' = Unmounted(recorders, TRUE)
            /\ UNCHANGED <<rec, startResult, pending, streams, leaked>>

\* A continuation of handleNext is queued as a microtask: no other task
\* runs before it.  analyzeVideoResponse without an API key fails before
\* its first asynchronous operation.
Urgent == handler.pc = "analyzing" /\ ~hasKey

\* ---------------------------------------------------- Flow Definition Store

\* JSON.stringify of an InterviewFlow and JSON.parse of the text it gives:
\* the flow holds strings, numbers and arrays of such records only, which
\* the text keeps as they are.
JSONStringify(v) == <<"json", v>>
JSONParseFlow(text) == text[2]

\* useState initial values of AdminPanel.
AdminUnmounted ==
    /\ title = << >>
    /\ webhookUrl = << >>
    /\ questions = << >>
    /\ isAddingQuestion = FALSE
    /\ newQuestionText = << >>
    /\ newQuestionVideo = 0
    /\ adminAlert = ""

\* The alerts of handleSave.
TitleAlert == "Please provide a title and at least one question."
UrlAlert == "Webhook URL must start with http:// or https://"

\* -------------------------------------------------------------------- Init

\* No call of handleNext is in flight.  A call in flight keeps the flow,
\* the question index, the clip and the accumulator of the render that
\* created it, and the number of its session.
IdleHandler ==
    [pc |-> "idle", blob |-> 0, index |-> 0, answers |-> << >>, flow |-> << >>,
     session |-> 0]

\* useState initial values of InterviewSession.
SessionComponentInitial ==
    /\ currentQuestionIndex = 0
    /\ answers = << >>
    /\ currentAnswerBlob = 0
    /\ isProcessing = FALSE
    /\ handler = IdleHandler

\* A session was just started: InterviewSession mounted on question 0, its
\* VideoRecorder mounted and acquiring the camera.
Init ==
    /\ hasKey \in BOOLEAN
    /\ currentFlow \in Flows
    /\ storage = JSONStringify(currentFlow)
    /\ uuids = Len(currentFlow.questions) + 1
    /\ AdminUnmounted
    /\ calls = << >>
    /\ mode = "INTERVIEW"
    /\ isDarkMode = TRUE
    /\ SessionComponentInitial
    /\ orphans = << >>
    /\ posts = << << >> >>
    /\ webhookOutcome = <<"none">>
    /\ completed = <<0>>
    /\ doneAnswers = << << >> >>
    /\ abandoned = <<FALSE>>
    /\ rec = InitialRecorderState
    /\ startResult = "none"
    /\ pending = [cur |-> 1, orphan |-> 0]
    /\ streams = << >>
    /\ leaked = [mounted |-> 0, torn |-> 0]
    /\ recorders = << >>

\* ------------------------------------------------- VideoRecorder: startCamera

\* getUserMedia of the mounted instance resolves: setStream(mediaStream).
\* The auto-acquire effect re-runs and finds a stream.
AcquireResolve ==
    /\ ~Urgent
    /\ RecorderMounted
    /\ pending.cur > 0
    /\ rec' = [rec EXCEPT !.stream = NewStream]
    /\ LET ss == (NewStream :> "mounted") @@ streams
       IN /\ streams' = Held(ss, rec', recorders)
          /\ leaked' = Leaks(ss, leaked, rec', recorders)
    /\ pending' = [pending EXCEPT !.cur = @ - 1]
    /\ UNCHANGED recorders
    /\ UNCHANGED sessionVars
    /\ UNCHANGED outsideVars
    /\ startResult' = "none"

\* getUserMedia of the mounted instance rejects: setError.  The
\* dependencies of the auto-acquire effect are unchanged: no retry.
AcquireReject ==
    /\ ~Urgent
    /\ RecorderMounted
    /\ pending.cur > 0
    /\ rec' = [rec EXCEPT !.error = "Camera access denied."]
    /\ pending' = [pending EXCEPT !.cur = @ - 1]
    /\ UNCHANGED <<streams, leaked, recorders>>
    /\ UNCHANGED sessionVars
    /\ UNCHANGED outsideVars
    /\ startResult' = "none"

\* getUserMedia of an unmounted instance resolves: setStream does nothing,
\* the stream is live and nothing refers to it.
OrphanAcquireResolve ==
    /\ ~Urgent
    /\ pending.orphan > 0
    /\ leaked' = [leaked EXCEPT !.torn = @ + 1]
    /\ pending' = [pending EXCEPT !.orphan = @ - 1]
    /\ UNCHANGED <<rec, streams, recorders>>
    /\ UNCHANGED sessionVars
    /\ UNCHANGED outsideVars
    /\ startResult' = "none"

\* getUserMedia of an unmounted instance rejects: setError does nothing.
OrphanAcquireReject ==
    /\ ~Urgent
    /\ pending.orphan > 0
    /\ pending' = [pending EXCEPT !.orphan = @ - 1]
    /\ UNCHANGED <<rec, streams, leaked, recorders>>
    /\ UNCHANGED sessionVars
    /\ UNCHANGED outsideVars
    /\ startResult' = "none"

\* -------------------------------------------- VideoRecorder: recording

\* stopRecording, called from a render in which isRecording holds:
\* mediaRecorderRef.current.stop() queues the recorder's stop event (it
\* does nothing on a recorder that stopped by itself), then
\* setIsRecording(false).  The timer effect clears its interval.
stopRecording ==
    IF rec.mediaRecorderRef # 0 /\ rec.isRecording
    THEN /\ recorders' = [recorders EXCEPT
                            ![rec.mediaRecorderRef].state =
                                IF @ = "recording" THEN "stopping" ELSE @]
         /\ rec' = [rec EXCEPT !.isRecording = FALSE]
    ELSE UNCHANGED <<recorders, rec>>

\* A recording may still be started: of an answer in a session, of a
\* prompt in AdminPanel.
TakesLeft ==
    Len(recorders) < (IF mode = "ADMIN" THEN MaxPrompts ELSE MaxTakes)

\* START RECORDING is clicked (the button shows while there is neither a
\* clip nor a recording): without a stream the call returns and nothing
\* else; else a MediaRecorder with its own chunk list is created on the
\* stream and started.
startRecording ==
    /\ ~Urgent
    /\ RecorderMounted
    /\ rec.recordedBlob = 0 /\ ~rec.isRecording
    /\ IF rec.stream = 0
       THEN /\ startResult' = "returned"
            /\ UNCHANGED <<rec, recorders>>
       ELSE /\ TakesLeft
            /\ startResult' = "recording"
            /\ recorders' = Append(recorders,
                   [state |-> "recording", stream |-> rec.stream, mounted |-> TRUE,
                    parent |-> Parent,
                    chunks |-> << >>, handoff |-> "none"])
            /\ rec' = [rec EXCEPT !.mediaRecorderRef = Len(recorders) + 1,
                                  !.isRecording = TRUE,
                                  !.timer = 0]
    /\ UNCHANGED <<pending, streams, leaked>>
    /\ UNCHANGED sessionVars
    /\ UNCHANGED outsideVars

\* STOP is clicked (the button shows while recording and without a clip).
StopClick ==
    /\ ~Urgent
    /\ RecorderMounted
    /\ rec.recordedBlob = 0 /\ rec.isRecording
    /\ stopRecording
    /\ UNCHANGED <<pending, streams, leaked>>
    /\ UNCHANGED sessionVars
    /\ UNCHANGED outsideVars
    /\ startResult' = "none"

\* The one-second interval of the timer effect fires (it runs while
\* isRecording): the updater stops the recording when the timer has
\* reached maxDurationSeconds, and adds one second otherwise.
Tick ==
    /\ ~Urgent
    /\ RecorderMounted
    /\ rec.isRecording
    /\ IF rec.timer >= maxDurationSeconds
       THEN stopRecording
       ELSE /\ rec' = [rec EXCEPT !.timer = @ + 1]
            /\ UNCHANGED recorders
    /\ UNCHANGED <<pending, streams, leaked>>
    /\ UNCHANGED sessionVars
    /\ UNCHANGED outsideVars
    /\ startResult' = "none"

\* The sizes of the data a MediaRecorder delivers when it stops: nothing
\* (it recorded no frame), or something.
DataSizes == {0, 1}

\* DataAvailable, a mutant in which the recorders push to one chunk list
\* that is never emptied.
DataAvailable_shared(r, size) ==
    (IF r > 1 THEN recorders[r - 1].chunks ELSE << >>)
        \o (IF size > 0 THEN <<r>> ELSE << >>)

\* ondataavailable of MediaRecorder r, with data of that size: data that
\* is not empty is pushed to the chunk list startRecording created for r.
DataAvailable(r, size) ==
    IF size > 0 THEN Append(recorders[r].chunks, r) ELSE recorders[r].chunks

\* The MediaRecorders once the tracks of stream s are stopped: one that
\* records a stream all of whose tracks have ended stops by itself (the
\* browser queues its stop event).
TracksEnded(recs, s) ==
    [q \in 1..Len(recs) |->
        IF recs[q].state = "recording" /\ recs[q].stream = s
        THEN [recs[q] EXCEPT !.state = "stopping"]
        ELSE recs[q]]

\* The stop event of MediaRecorder r: ondataavailable delivers the
\* recorded data, then onstop builds the clip from the chunk list of r,
\* sets it (and its preview URL) in the recorder, calls
\* onRecordingComplete (setCurrentAnswerBlob of the session, or
\* setNewQuestionVideo of AdminPanel), and only then stops the tracks of
\* the stream it recorded and clears the stream.  State setters of an
\* unmounted component do nothing.  handoff keeps what the stream was when
\* onRecordingComplete was called.
StopEvent(r, size) ==
    /\ ~Urgent
    /\ recorders[r].state = "stopping"
    /\ recorders' = [TracksEnded(recorders, recorders[r].stream) EXCEPT
                       ![r] = [state |-> "inactive", stream |-> 0,
                               mounted |-> recorders[r].mounted,
                               parent |-> recorders[r].parent,
                               chunks |-> DataAvailable(r, size),
                               handoff |-> IF recorders[r].stream \in DOMAIN streams
                                           THEN "live" ELSE "released"]]
    /\ IF recorders[r].mounted
       THEN rec' = [rec EXCEPT !.recordedBlob = r, !.previewUrl = r, !.stream = 0]
       ELSE UNCHANGED rec
    /\ currentAnswerBlob' =
           IF recorders[r].parent = "session" THEN r ELSE currentAnswerBlob
    /\ newQuestionVideo' =
           IF recorders[r].parent = "admin" THEN r ELSE newQuestionVideo
    /\ LET ss == StopTracks(streams, recorders[r].stream)
       IN /\ streams' = Held(ss, rec', recorders')
          /\ leaked' = Leaks(ss, leaked, rec', recorders')
    /\ UNCHANGED pending
    /\ UNCHANGED <<hasKey, currentFlow, mode, currentQuestionIndex, answers,
                   isProcessing, handler, orphans, sessionLog>>
    /\ UNCHANGED <<storage, uuids, title, webhookUrl, questions, isAddingQuestion,
                   newQuestionText, adminAlert, calls, isDarkMode>>
    /\ startResult' = "none"

\* RETAKE VIDEO is clicked (the button shows while a clip is held): the
\* clip, its preview URL and the timer are reset and startCamera is called;
\* the re-render then runs the auto-acquire effect (recordedBlob changed),
\* which calls startCamera again when no stream is held.
resetRecording ==
    /\ ~Urgent
    /\ RecorderMounted
    /\ rec.recordedBlob # 0
    /\ rec' = [rec EXCEPT !.recordedBlob = 0, !.previewUrl = 0, !.timer = 0,
                          !.error = ""]
    /\ pending' = [pending EXCEPT
                     !.cur = @ + 1 + (IF rec.stream = 0 THEN 1 ELSE 0)]
    /\ UNCHANGED <<streams, leaked, recorders>>
    /\ UNCHANGED sessionVars
    /\ UNCHANGED outsideVars
    /\ startResult' = "none"

\* ------------------------------------------------------- InterviewSession

\* The list qs without its k-th element.
Without(qs, k) ==
    [j \in 1..(Len(qs) - 1) |-> IF j < k THEN qs[j] ELSE qs[j + 1]]

\* NoWebhookUrl, a mutant: submitToWebhook without its first check.
NoWebhookUrl_unchecked(f) == FALSE

\* !flow.webhookUrl, on which submitToWebhook returns at once.
NoWebhookUrl(f) == f.webhookUrl = << >>

\* FindQuestionText, a mutant that takes the text of the first question.
FindQuestionText_first(f, id) == f.questions[1].text

\* flow.questions.find(q => q.id === id)?.text: the text of the first
\* question with that id, "undefined" without one.
FindQuestionText(f, id) ==
    LET hits == {k \in 1..Len(f.questions) : f.questions[k].id = id}
    IN IF hits = {} THEN "undefined"
       ELSE f.questions[CHOOSE k \in hits : \A j \in hits : k <= j].text

\* The payload submitToWebhook builds over flow f, candidateId being the
\* identifier crypto.randomUUID() hands out (submittedAt, the clock, is
\* left out).
Payload(f, allAnswers) ==
    [interviewId |-> f.id,
     flowTitle |-> f.title,
     candidateId |-> <<"uuid", uuids + 1>>,
     results |-> [k \in 1..Len(allAnswers) |->
                    [questionId |-> allAnswers[k].questionId,
                     questionText |-> FindQuestionText(f, allAnswers[k].questionId),
                     analysis |-> allAnswers[k].analysis]]]

\* NewAnswer, a mutant that tags every answer with the first question.
NewAnswer_firstquestion(f, index, blob, analysis) ==
    [questionId |-> f.questions[1].id,
     videoBlob |-> blob,
     analysis |-> analysis]

\* The Answer handleNext builds for the question and clip it captured.
NewAnswer(f, index, blob, analysis) ==
    [questionId |-> f.questions[index + 1].id,
     videoBlob |-> blob,
     analysis |-> analysis]

\* IsLastQuestion, a mutant that compares with the number of questions.
IsLastQuestion_offbyone(f, index) == index = Len(f.questions)

\* isLastQuestion of the render that created the handler.
IsLastQuestion(f, index) == index = Len(f.questions) - 1

\* onComplete of App, called by the handleNext call of session s: the
\* alert, then setMode(HOME), which unmounts the page that is mounted then.
\* rest are the calls of handleNext that are in flight afterwards, all of
\* unmounted sessions.
onComplete(s, updatedAnswers, rest) ==
    /\ completed' = [completed EXCEPT ![s] = @ + 1]
    /\ doneAnswers' = [doneAnswers EXCEPT ![s] = updatedAnswers]
    /\ handler' = IdleHandler
    /\ orphans' = rest
    /\ UnmountPage

\* handleNext, a mutant without setIsProcessing(true): the recorder and the
\* Next button stay on screen while the analysis call is in flight.
handleNext_noprocessing ==
    /\ ~Urgent
    /\ mode = "INTERVIEW" /\ ~isProcessing
    /\ currentAnswerBlob # 0
    /\ handler' = [pc |-> "analyzing", blob |-> currentAnswerBlob,
                   index |-> currentQuestionIndex, answers |-> answers,
                   flow |-> flow, session |-> session]
    /\ UNCHANGED recorderVars
    /\ UNCHANGED <<hasKey, currentFlow, mode, sessionComponent, orphans, sessionLog>>
    /\ UNCHANGED outsideVars

\* Next Question / Submit Interview is clicked (enabled while a clip is
\* held): the processing screen replaces the recorder and the analysis
\* call starts, with the flow, clip, question and accumulator of this
\* render.
handleNext ==
    /\ ~Urgent
    /\ mode = "INTERVIEW" /\ ~isProcessing
    /\ currentAnswerBlob # 0
    /\ isProcessing' = TRUE
    /\ handler' = [pc |-> "analyzing", blob |-> currentAnswerBlob,
                   index |-> currentQuestionIndex, answers |-> answers,
                   flow |-> flow, session |-> session]
    /\ UnmountRecorder(FALSE)
    /\ UNCHANGED <<hasKey, currentFlow, mode, currentQuestionIndex, answers,
                   currentAnswerBlob, orphans, sessionLog>>
    /\ UNCHANGED outsideVars

\* The analysis call of the handler in flight of the mounted session
\* returns, env being what the analyzer met.  handleNext appends the
\* answer; on the last question it submits (no request without a webhook
\* URL, and then onComplete at once; else a payload with a fresh
\* candidateId is posted), else it moves to the next question and clears
\* the held clip; an exception is caught and the processing screen is left.
handleNextAnalyzed(env) ==
    LET out == analyzeVideoResponse(hasKey, env)
        updatedAnswers ==
            Append(handler.answers,
                   NewAnswer(handler.flow, handler.index, handler.blob, out.value))
    IN
    /\ handler.pc = "analyzing"
    /\ IF out.threw
       THEN \* catch: alert; finally: setIsProcessing(false)
            /\ handler' = IdleHandler
            /\ isProcessing' = FALSE
            /\ MountRecorder
            /\ UNCHANGED <<mode, currentQuestionIndex, answers, currentAnswerBlob,
                           orphans, sessionLog, uuids, adminForm, adminAlert>>
       ELSE
       IF IsLastQuestion(handler.flow, handler.index)
       THEN IF NoWebhookUrl(handler.flow)
            THEN /\ onComplete(handler.session, updatedAnswers, orphans)
                 /\ UNCHANGED <<posts, webhookOutcome, abandoned, uuids>>
            ELSE /\ posts' = [posts EXCEPT ![handler.session] =
                                 Append(@, Payload(handler.flow, updatedAnswers))]
                 /\ uuids' = uuids + 1
                 /\ handler' = [handler EXCEPT !.pc = "submitting",
                                               !.answers = updatedAnswers]
                 /\ answers' = updatedAnswers
                 /\ UNCHANGED <<mode, currentQuestionIndex, currentAnswerBlob,
                                isProcessing, orphans, webhookOutcome, completed,
                                doneAnswers, abandoned, adminForm, adminAlert>>
                 /\ UNCHANGED recorderVars
       ELSE /\ handler' = IdleHandler
            /\ answers' = updatedAnswers
            /\ currentQuestionIndex' = currentQuestionIndex + 1
            /\ currentAnswerBlob' = 0
            /\ isProcessing' = FALSE
            /\ MountRecorder
            /\ UNCHANGED <<mode, orphans, sessionLog, uuids, adminForm, adminAlert>>
    /\ UNCHANGED <<hasKey, currentFlow, storage, calls, isDarkMode>>

\* The calls of handleNext in flight once call k of an unmounted session
\* has called onComplete: the others, and the call of the session that
\* onComplete unmounts.
Rest(k) ==
    Without(orphans, k) \o (IF handler.pc = "idle" THEN << >> ELSE <<handler>>)

\* The analysis call of handler k of an unmounted session returns: the
\* state setters of the session do nothing, everything else is done as in
\* a mounted one.
handleNextAnalyzedUnmounted(k, env) ==
    LET h == orphans[k]
        out == analyzeVideoResponse(hasKey, env)
        updatedAnswers ==
            Append(h.answers, NewAnswer(h.flow, h.index, h.blob, out.value))
    IN
    /\ ~Urgent
    /\ h.pc = "analyzing"
    /\ IF ~out.threw /\ IsLastQuestion(h.flow, h.index)
       THEN IF NoWebhookUrl(h.flow)
            THEN /\ onComplete(h.session, updatedAnswers, Rest(k))
                 /\ UNCHANGED <<posts, webhookOutcome, abandoned, uuids>>
            ELSE /\ posts' = [posts EXCEPT ![h.session] =
                                 Append(@, Payload(h.flow, updatedAnswers))]
                 /\ uuids' = uuids + 1
                 /\ orphans' = [orphans EXCEPT ![k] =
                                   [h EXCEPT !.pc = "submitting",
                                             !.answers = updatedAnswers]]
                 /\ UNCHANGED <<mode, sessionComponent, handler, webhookOutcome,
                                completed, doneAnswers, abandoned, adminForm,
                                adminAlert>>
                 /\ UNCHANGED recorderVars
       ELSE /\ orphans' = Without(orphans, k)
            /\ UNCHANGED <<mode, sessionComponent, handler, sessionLog, uuids,
                           adminForm, adminAlert>>
            /\ UNCHANGED recorderVars
    /\ UNCHANGED <<hasKey, currentFlow, storage, calls, isDarkMode>>

\* The outcomes of the webhook request: a 2xx response, another status, a
\* network error.
WebhookOutcomes == {"ok", "status", "network"}

\* handleNextSubmitted, a mutant in which a failed request is not caught by
\* submitToWebhook: handleNext's catch reports it and leaves the
\* processing screen without calling onComplete.
handleNextSubmitted_blocks(outcome) ==
    /\ handler.pc = "submitting"
    /\ webhookOutcome' = [webhookOutcome EXCEPT ![handler.session] = outcome]
    /\ IF outcome = "ok"
       THEN onComplete(handler.session, handler.answers, orphans)
       ELSE /\ handler' = IdleHandler
            /\ isProcessing' = FALSE
            /\ MountRecorder
            /\ UNCHANGED <<mode, currentQuestionIndex, answers, currentAnswerBlob,
                           orphans, completed, doneAnswers, adminForm, adminAlert>>
    /\ UNCHANGED <<posts, abandoned>>
    /\ UNCHANGED <<hasKey, currentFlow, storage, uuids, calls, isDarkMode>>

\* The webhook request of the handler in flight of the mounted session
\* ends: a failure is caught and reported by an alert; handleNext then
\* calls onComplete.
handleNextSubmitted(outcome) ==
    /\ handler.pc = "submitting"
    /\ webhookOutcome' = [webhookOutcome EXCEPT ![handler.session] = outcome]
    /\ onComplete(handler.session, handler.answers, orphans)
    /\ UNCHANGED <<posts, abandoned>>
    /\ UNCHANGED <<hasKey, currentFlow, storage, uuids, calls, isDarkMode>>

\* The webhook request of handler k of an unmounted session ends:
\* handleNext calls onComplete.
handleNextSubmittedUnmounted(k, outcome) ==
    /\ ~Urgent
    /\ orphans[k].pc = "submitting"
    /\ webhookOutcome' = [webhookOutcome EXCEPT ![orphans[k].session] = outcome]
    /\ onComplete(orphans[k].session, orphans[k].answers, Rest(k))
    /\ UNCHANGED <<posts, abandoned>>
    /\ UNCHANGED <<hasKey, currentFlow, storage, uuids, calls, isDarkMode>>

\* The candidate leaves the session: Cancel Session is clicked (onExit;
\* the button is not on the processing screen) or the header logo is (it
\* shows on every screen).  Both call setMode(HOME), which unmounts the
\* session, and its recorder if one is mounted; a call of handleNext in
\* flight lives on.
ExitSession ==
    /\ ~Urgent
    /\ mode = "INTERVIEW"
    /\ abandoned' = [abandoned EXCEPT ![session] = TRUE]
    /\ orphans' = IF handler.pc = "idle" THEN orphans ELSE Append(orphans, handler)
    /\ handler' = IdleHandler
    /\ UnmountPage
    /\ UNCHANGED <<posts, webhookOutcome, completed, doneAnswers>>
    /\ UNCHANGED <<hasKey, currentFlow, storage, uuids, calls, isDarkMode>>

\* --------------------------------------------------------------------- App

\* The existingFlow prop App passes to AdminPanel: the flow in use, else
\* the stored one (parsed anew by every render of App), else null.
existingFlow ==
    IF currentFlow # << >> THEN currentFlow
    ELSE IF storage # << >> THEN JSONParseFlow(storage)
    ELSE << >>

\* What loadFlow sets as the flow in use, the stored text being store.
loadFlow(store) == JSONParseFlow(store)

\* What neither the home screen nor AdminPanel touches of the sessions.
sessionFrame == <<handler, orphans, sessionLog>>

\* The MediaRecorders once the page is unloaded: none delivers an event
\* any more.
Unloaded(recs) ==
    [r \in 1..Len(recs) |->
        [recs[r] EXCEPT !.state = "inactive", !.stream = 0, !.mounted = FALSE,
                        !.parent = "none"]]

\* The page is reloaded: App mounts with its initial state and everything
\* the page held is gone: components, calls in flight, streams, recorders;
\* localStorage is kept.  A session that was mounted is abandoned.
Reload ==
    /\ mode' = "HOME"
    /\ currentFlow' = << >>
    /\ isDarkMode' = TRUE
    /\ title' = << >>
    /\ webhookUrl' = << >>
    /\ questions' = << >>
    /\ isAddingQuestion' = FALSE
    /\ newQuestionText' = << >>
    /\ newQuestionVideo' = 0
    /\ adminAlert' = ""
    /\ currentQuestionIndex' = 0
    /\ answers' = << >>
    /\ currentAnswerBlob' = 0
    /\ isProcessing' = FALSE
    /\ handler' = IdleHandler
    /\ orphans' = << >>
    /\ abandoned' = IF mode = "INTERVIEW"
                    THEN [abandoned EXCEPT ![session] = TRUE]
                    ELSE abandoned
    /\ rec' = InitialRecorderState
    /\ startResult' = "none"
    /\ pending' = [cur |-> 0, orphan |-> 0]
    /\ streams' = << >>
    /\ leaked' = [mounted |-> 0, torn |-> 0]
    /\ recorders' = Unloaded(recorders)
    /\ UNCHANGED <<hasKey, storage, uuids, calls, posts, webhookOutcome, completed,
                   doneAnswers>>

\* Start Interview is clicked on the home screen: with a stored flow,
\* loadFlow sets it as the flow in use and a new session mounts (and its
\* recorder); without one an alert says so.
startInterview ==
    /\ ~Urgent
    /\ mode = "HOME"
    /\ IF storage # << >>
       THEN /\ Len(posts) < MaxSessions
            /\ currentFlow' = loadFlow(storage)
            /\ mode' = "INTERVIEW"
            /\ posts' = Append(posts, << >>)
            /\ webhookOutcome' = Append(webhookOutcome, "none")
            /\ completed' = Append(completed, 0)
            /\ doneAnswers' = Append(doneAnswers, << >>)
            /\ abandoned' = Append(abandoned, FALSE)
            /\ MountRecorder
       ELSE UNCHANGED <<currentFlow, mode, sessionLog, recorderVars>>
    /\ UNCHANGED <<sessionComponent, handler, orphans>>
    /\ UNCHANGED <<hasKey, calls, isDarkMode>>
    /\ UNCHANGED adminVars

\* The theme button of the header is clicked: setIsDarkMode re-renders
\* App.  While AdminPanel is open without a flow in use, the stored flow is
\* parsed anew, existingFlow is a new object and the effect of AdminPanel
\* copies it into the form again.
toggleTheme ==
    /\ ~Urgent
    /\ isDarkMode' = ~isDarkMode
    /\ IF mode = "ADMIN" /\ currentFlow = << >> /\ storage # << >>
       THEN /\ title' = existingFlow.title
            /\ webhookUrl' = existingFlow.webhookUrl
            /\ questions' = existingFlow.questions
       ELSE UNCHANGED <<title, webhookUrl, questions>>
    /\ UNCHANGED <<isAddingQuestion, newQuestionText, newQuestionVideo>>
    /\ UNCHANGED <<storage, uuids, mode, currentFlow, hasKey, calls>>
    /\ UNCHANGED <<sessionComponent, sessionFrame, recorderVars>>
    /\ adminAlert' = ""

\* Admin mode is entered from the home screen: AdminPanel mounts, its form
\* closed, and its effect copies the existing flow, if any, into its state.
OpenAdmin ==
    /\ ~Urgent
    /\ mode = "HOME"
    /\ mode' = "ADMIN"
    /\ IF existingFlow # << >>
       THEN /\ title' = existingFlow.title
            /\ webhookUrl' = existingFlow.webhookUrl
            /\ questions' = existingFlow.questions
       ELSE UNCHANGED <<title, webhookUrl, questions>>
    /\ UNCHANGED <<isAddingQuestion, newQuestionText, newQuestionVideo>>
    /\ UNCHANGED <<storage, uuids, currentFlow, isDarkMode, hasKey, calls>>
    /\ UNCHANGED <<sessionComponent, sessionFrame, recorderVars>>
    /\ adminAlert' = ""

\* onBack (or the header logo): setMode(HOME) unmounts AdminPanel, and the
\* VideoRecorder of its form if that is open; its state is gone.
onBack ==
    /\ ~Urgent
    /\ mode = "ADMIN"
    /\ UnmountPage
    /\ UNCHANGED <<storage, uuids, currentFlow, isDarkMode, hasKey, calls>>
    /\ UNCHANGED sessionFrame

\* -------------------------------------------------------------- AdminPanel

\* The title input changes.
setTitle(t) ==
    /\ ~Urgent
    /\ mode = "ADMIN"
    /\ title' = t
    /\ UNCHANGED <<webhookUrl, questions, isAddingQuestion, newQuestionText,
                   newQuestionVideo>>
    /\ UNCHANGED <<storage, uuids, mode, currentFlow, isDarkMode, hasKey, calls>>
    /\ UNCHANGED <<sessionComponent, sessionFrame, recorderVars>>
    /\ adminAlert' = ""

\* The webhook URL input changes.
setWebhookUrl(u) ==
    /\ ~Urgent
    /\ mode = "ADMIN"
    /\ webhookUrl' = u
    /\ UNCHANGED <<title, questions, isAddingQuestion, newQuestionText,
                   newQuestionVideo>>
    /\ UNCHANGED <<storage, uuids, mode, currentFlow, isDarkMode, hasKey, calls>>
    /\ UNCHANGED <<sessionComponent, sessionFrame, recorderVars>>
    /\ adminAlert' = ""

\* Add Next Question is clicked: the form opens and its VideoRecorder
\* mounts.
openAddForm ==
    /\ ~Urgent
    /\ mode = "ADMIN" /\ ~isAddingQuestion
    /\ pending.orphan + leaked.torn < MaxOrphans
    /\ isAddingQuestion' = TRUE
    /\ MountRecorder
    /\ UNCHANGED <<title, webhookUrl, questions, newQuestionText, newQuestionVideo>>
    /\ UNCHANGED <<storage, uuids, mode, currentFlow, isDarkMode, hasKey, calls>>
    /\ UNCHANGED <<sessionComponent, sessionFrame>>
    /\ adminAlert' = ""

\* Cancel is clicked in the form: it closes, its VideoRecorder unmounts;
\* the text and the clip of the new question stay.
cancelAddForm ==
    /\ ~Urgent
    /\ mode = "ADMIN" /\ isAddingQuestion
    /\ isAddingQuestion' = FALSE
    /\ UnmountRecorder(FALSE)
    /\ UNCHANGED <<title, webhookUrl, questions, newQuestionText, newQuestionVideo>>
    /\ UNCHANGED <<storage, uuids, mode, currentFlow, isDarkMode, hasKey, calls>>
    /\ UNCHANGED <<sessionComponent, sessionFrame>>
    /\ adminAlert' = ""

\* The text input of the new question changes.
setNewQuestionText(t) ==
    /\ ~Urgent
    /\ mode = "ADMIN" /\ isAddingQuestion
    /\ newQuestionText' = t
    /\ UNCHANGED <<title, webhookUrl, questions, isAddingQuestion, newQuestionVideo>>
    /\ UNCHANGED <<storage, uuids, mode, currentFlow, isDarkMode, hasKey, calls>>
    /\ UNCHANGED <<sessionComponent, sessionFrame, recorderVars>>
    /\ adminAlert' = ""

\* handleAddQuestion: nothing without both the text and the prompt clip of
\* the new question; else a question with a fresh id, order length + 1 and
\* an object URL of the clip is appended, the text and the clip are
\* cleared and the form closes, which unmounts its VideoRecorder.
handleAddQuestion ==
    /\ ~Urgent
    /\ mode = "ADMIN" /\ isAddingQuestion
    /\ IF newQuestionText = << >> \/ newQuestionVideo = 0
       THEN UNCHANGED <<questions, uuids, newQuestionText, newQuestionVideo,
                        isAddingQuestion, recorderVars>>
       ELSE /\ uuids < MaxUuids
            /\ uuids' = uuids + 1
            /\ questions' = Append(questions,
                   [id |-> <<"uuid", uuids + 1>>,
                    order |-> Len(questions) + 1,
                    text |-> newQuestionText,
                    videoUrl |-> <<"blob", newQuestionVideo>>])
            /\ newQuestionText' = << >>
            /\ newQuestionVideo' = 0
            /\ isAddingQuestion' = FALSE
            /\ UnmountRecorder(FALSE)
    /\ UNCHANGED <<title, webhookUrl>>
    /\ UNCHANGED <<storage, mode, currentFlow, isDarkMode, hasKey, calls>>
    /\ UNCHANGED <<sessionComponent, sessionFrame>>
    /\ adminAlert' = ""

\* handleRemoveQuestion, a mutant that filters by the order of the question
\* with that id.
handleRemoveQuestion_byorder(id) ==
    /\ ~Urgent
    /\ mode = "ADMIN"
    /\ \E k \in 1..Len(questions) : questions[k].id = id
    /\ LET o == questions[CHOOSE k \in 1..Len(questions) : questions[k].id = id].order
       IN questions' = SelectSeq(questions, LAMBDA q : q.order # o)
    /\ UNCHANGED <<title, webhookUrl, isAddingQuestion, newQuestionText,
                   newQuestionVideo>>
    /\ UNCHANGED <<storage, uuids, mode, currentFlow, isDarkMode, hasKey, calls>>
    /\ UNCHANGED <<sessionComponent, sessionFrame, recorderVars>>
    /\ adminAlert' = ""

\* handleRemoveQuestion: the remove button of the question with that id.
handleRemoveQuestion(id) ==
    /\ ~Urgent
    /\ mode = "ADMIN"
    /\ \E k \in 1..Len(questions) : questions[k].id = id
    /\ questions' = SelectSeq(questions, LAMBDA q : q.id # id)
    /\ UNCHANGED <<title, webhookUrl, isAddingQuestion, newQuestionText,
                   newQuestionVideo>>
    /\ UNCHANGED <<storage, uuids, mode, currentFlow, isDarkMode, hasKey, calls>>
    /\ UNCHANGED <<sessionComponent, sessionFrame, recorderVars>>
    /\ adminAlert' = ""

\* saveFlow, a mutant that does not overwrite a stored flow.
saveFlow_keepsstored(f) ==
    /\ storage' = IF storage = << >> THEN JSONStringify(f) ELSE storage
    /\ currentFlow' = f
    /\ UnmountPage

\* saveFlow of App: the flow is stored and set as the flow in use, and
\* setMode(HOME) unmounts AdminPanel.
saveFlow(f) ==
    /\ storage' = JSONStringify(f)
    /\ currentFlow' = f
    /\ UnmountPage

\* handleSave, a mutant without the check of the title: a flow is saved
\* when it has a question.
handleSave_notitlecheck ==
    LET cleanWebhookUrl == Trim(webhookUrl)
        fresh == existingFlow = << >>
        built == [id |-> IF fresh THEN <<"uuid", uuids + 1>> ELSE existingFlow.id,
                  title |-> title,
                  webhookUrl |-> cleanWebhookUrl,
                  questions |-> questions]
    IN
    /\ ~Urgent
    /\ mode = "ADMIN"
    /\ IF Len(questions) = 0
       THEN /\ adminAlert' = TitleAlert
            /\ UNCHANGED <<storage, uuids, adminForm, mode, currentFlow,
                           sessionComponent, recorderVars>>
       ELSE IF cleanWebhookUrl # << >> /\ ~StartsWith(cleanWebhookUrl, HTTP)
       THEN /\ adminAlert' = UrlAlert
            /\ UNCHANGED <<storage, uuids, adminForm, mode, currentFlow,
                           sessionComponent, recorderVars>>
       ELSE /\ fresh => uuids < MaxUuids
            /\ uuids' = IF fresh THEN uuids + 1 ELSE uuids
            /\ saveFlow(built)
    /\ UNCHANGED <<isDarkMode, hasKey, calls>>
    /\ UNCHANGED sessionFrame

\* handleSave: rejected (an alert, nothing changes) without a title or
\* without a question, and when the trimmed webhook URL is not empty and
\* does not start with "http"; else the flow is built, under the id of the
\* existing flow or a fresh one, and handed to onSaveFlow.
handleSave ==
    LET cleanWebhookUrl == Trim(webhookUrl)
        fresh == existingFlow = << >>
        built == [id |-> IF fresh THEN <<"uuid", uuids + 1>> ELSE existingFlow.id,
                  title |-> title,
                  webhookUrl |-> cleanWebhookUrl,
                  questions |-> questions]
    IN
    /\ ~Urgent
    /\ mode = "ADMIN"
    /\ IF title = << >> \/ Len(questions) = 0
       THEN /\ adminAlert' = TitleAlert
            /\ UNCHANGED <<storage, uuids, adminForm, mode, currentFlow,
                           sessionComponent, recorderVars>>
       ELSE IF cleanWebhookUrl # << >> /\ ~StartsWith(cleanWebhookUrl, HTTP)
       THEN /\ adminAlert' = UrlAlert
            /\ UNCHANGED <<storage, uuids, adminForm, mode, currentFlow,
                           sessionComponent, recorderVars>>
       ELSE /\ fresh => uuids < MaxUuids
            /\ uuids' = IF fresh THEN uuids + 1 ELSE uuids
            /\ saveFlow(built)
    /\ UNCHANGED <<isDarkMode, hasKey, calls>>
    /\ UNCHANGED sessionFrame

\* ----------------------------------------------------------- specification

\* The steps of the VideoRecorder that is mounted, of those that were, and
\* of the browser for them, but for the ticks of the timer.
RecorderStep ==
    \/ AcquireResolve
    \/ AcquireReject
    \/ OrphanAcquireResolve
    \/ OrphanAcquireReject
    \/ startRecording
    \/ StopClick
    \/ \E r \in 1..Len(recorders), size \in DataSizes : StopEvent(r, size)
    \/ resetRecording

\* A candidate takes interviews over the stored flow.
Next ==
    \/ RecorderStep
    \/ Tick
    \/ handleNext
    \/ \E env \in AnalyzerEnvs : handleNextAnalyzed(env)
    \/ \E outcome \in WebhookOutcomes : handleNextSubmitted(outcome)
    \/ \E k \in 1..Len(orphans), env \in AnalyzerEnvs :
           handleNextAnalyzedUnmounted(k, env)
    \/ \E k \in 1..Len(orphans), outcome \in WebhookOutcomes :
           handleNextSubmittedUnmounted(k, outcome)
    \/ ExitSession
    \/ startInterview

Spec == Init /\ [][Next]_vars

\* The sessions with every analysis call and every webhook request coming
\* to an end: the promise handleNext awaits is settled, and its
\* continuation runs.
SpecLive ==
    /\ Spec
    /\ WF_vars(\E env \in AnalyzerEnvs : handleNextAnalyzed(env))
    /\ WF_vars(\E outcome \in WebhookOutcomes : handleNextSubmitted(outcome))
    /\ WF_vars(\E k \in 1..Len(orphans), env \in AnalyzerEnvs :
                   handleNextAnalyzedUnmounted(k, env))
    /\ WF_vars(\E k \in 1..Len(orphans), outcome \in WebhookOutcomes :
                   handleNextSubmittedUnmounted(k, outcome))

\* No session is mounted, and none was.
SessionUnmounted ==
    /\ SessionComponentInitial
    /\ orphans = << >>
    /\ posts = << >>
    /\ webhookOutcome = << >>
    /\ completed = << >>
    /\ doneAnswers = << >>
    /\ abandoned = << >>
    /\ rec = InitialRecorderState
    /\ startResult = "none"
    /\ pending = [cur |-> 0, orphan |-> 0]
    /\ streams = << >>
    /\ leaked = [mounted |-> 0, torn |-> 0]
    /\ recorders = << >>

\* ------------------------------------- Remote Analyzer Client on its own

\* The failure outcomes of an analysis call: a missing credential, a clip
\* that cannot be encoded, a failed request, an empty response text, a
\* response text that is not JSON.
IsFailure(key, env) ==
    \/ ~key
    \/ ~env.encodes
    \/ ~env.transport
    \/ env.text = ""
    \/ env.text = "not json"

\* A client of the analyzer, with or without an API key, before its first
\* call.
InitAnalyzer ==
    /\ hasKey \in BOOLEAN
    /\ calls = << >>
    /\ mode = "HOME"
    /\ currentFlow = << >>
    /\ isDarkMode = TRUE
    /\ storage = << >>
    /\ uuids = 0
    /\ AdminUnmounted
    /\ SessionUnmounted

\* A call of analyzeVideoResponse that has not ended.
InFlight == [done |-> FALSE, env |-> << >>, out |-> << >>]

\* The client calls analyzeVideoResponse: the call is in flight, beside
\* those that are already.
Analyze ==
    /\ Len(calls) < MaxCalls
    /\ calls' = Append(calls, InFlight)
    /\ UNCHANGED <<sessionVars, recorderVars, adminVars, isDarkMode>>

\* Call i ends, env being what the analyzer met: by returning a value or
\* by throwing.
AnalyzeReturn(i, env) ==
    /\ ~calls[i].done
    /\ calls' = [calls EXCEPT ![i] =
                    [done |-> TRUE, env |-> env,
                     out |-> analyzeVideoResponse(hasKey, env)]]
    /\ UNCHANGED <<sessionVars, recorderVars, adminVars, isDarkMode>>

NextAnalyzer ==
    \/ Analyze
    \/ \E i \in 1..Len(calls), env \in AnalyzerEnvs : AnalyzeReturn(i, env)

SpecAnalyzer == InitAnalyzer /\ [][NextAnalyzer]_vars

\* -------------------------------------------- Flow Definition Store: AdminPanel

\* What is typed in the title and webhook URL inputs.
Titles == {<< >>, <<"T">>}
WebhookInputs ==
    {<< >>, <<" ">>, <<"\t">>, HTTPS_URL, <<" ">> \o HTTP_URL \o <<" ">>,
     HTTPS_URL \o <<" ">>, HTTP_URL \o <<NBSP>>,
     <<"\t">> \o HTTPS_URL \o <<"\n">>, <<NBSP>> \o HTTP_URL,
     <<"U+3000">> \o HTTPS_URL, HTTPS_URL \o <<"U+FEFF">>,
     <<"U+2000">> \o HTTP_URL \o <<"U+2028">>,
     HTTP \o <<"x">>, <<"f", "t", "p", ":", "/", "/", "x">>}

\* What is typed as text of a new question.
QuestionTexts == {<< >>, <<"Q">>}

\* The prompt clips of k questions, each recorded in one take that the
\* administrator stopped, and the questions added with them.
PromptRecorders(k) ==
    [r \in 1..k |->
        [state |-> "inactive", stream |-> 0, mounted |-> FALSE,
         parent |-> "admin", chunks |-> <<r>>, handoff |-> "live"]]
PromptQuestions(k) ==
    [j \in 1..k |->
        [id |-> <<"uuid", j>>, order |-> j, text |-> <<"Q">>,
         videoUrl |-> <<"blob", j>>]]

\* The application was opened for the first time, nothing is stored; the
\* administrator entered Admin mode and added the questions of a flow, up
\* to MaxQuestions of them.
InitAdmin ==
    /\ hasKey = TRUE
    /\ calls = << >>
    /\ mode = "ADMIN"
    /\ currentFlow = << >>
    /\ isDarkMode = TRUE
    /\ storage = << >>
    /\ \E k \in 0..MaxQuestions :
           /\ uuids = k
           /\ questions = PromptQuestions(k)
           /\ recorders = PromptRecorders(k)
    /\ title = << >>
    /\ webhookUrl = << >>
    /\ isAddingQuestion = FALSE
    /\ newQuestionText = << >>
    /\ newQuestionVideo = 0
    /\ adminAlert = ""
    /\ SessionComponentInitial
    /\ orphans = << >>
    /\ posts = << >>
    /\ webhookOutcome = << >>
    /\ completed = << >>
    /\ doneAnswers = << >>
    /\ abandoned = << >>
    /\ rec = InitialRecorderState
    /\ startResult = "none"
    /\ pending = [cur |-> 0, orphan |-> 0]
    /\ streams = << >>
    /\ leaked = [mounted |-> 0, torn |-> 0]

\* The administrator edits the title, the webhook URL and the list of
\* the questions added, saves, and the flow is loaded again.
NextAdmin ==
    \/ Reload
    \/ startInterview
    \/ toggleTheme
    \/ OpenAdmin
    \/ onBack
    \/ \E t \in Titles : setTitle(t)
    \/ \E u \in WebhookInputs : setWebhookUrl(u)
    \/ \E k \in 1..MaxUuids : handleRemoveQuestion(<<"uuid", k>>)
    \/ handleSave

SpecAdmin == InitAdmin /\ [][NextAdmin]_vars

\* ------------------------------------------- AdminPanel: the question form

\* The application was opened for the first time, nothing is stored, and
\* the administrator entered Admin mode.
InitPrompts ==
    /\ hasKey = TRUE
    /\ calls = << >>
    /\ mode = "ADMIN"
    /\ currentFlow = << >>
    /\ isDarkMode = TRUE
    /\ storage = << >>
    /\ uuids = 0
    /\ AdminUnmounted
    /\ SessionUnmounted

\* The administrator records prompts and adds and removes questions.
NextPrompts ==
    \/ openAddForm
    \/ cancelAddForm
    \/ \E t \in QuestionTexts : setNewQuestionText(t)
    \/ RecorderStep
    \/ Tick
    \/ handleAddQuestion
    \/ \E k \in 1..MaxUuids : handleRemoveQuestion(<<"uuid", k>>)

SpecPrompts == InitPrompts /\ [][NextPrompts]_vars

\* -------------------------------------------- Remote Analyzer Client claims

\* C4: no analysis call that ended threw, and every call that met a
\* failure returned the sentinel.
C4_NeverThrowsSentinelOnFailure ==
    \A i \in 1..Len(calls) :
        calls[i].done =>
            /\ ~calls[i].out.threw
            /\ IsFailure(hasKey, calls[i].env) => calls[i].out.value = Sentinel

\* A client with an API key made three calls that failed in three ways
\* (encoding, transport, response text that is not JSON) and got the
\* sentinel each time.
C4_Witness ==
    /\ hasKey
    /\ Len(calls) >= 3
    /\ \A i \in 1..3 : calls[i].done
    /\ ~calls[1].env.encodes
    /\ ~calls[2].env.transport
    /\ calls[3].env.text = "not json"
    /\ \A i \in 1..3 : calls[i].out = Ok(Sentinel)

\* The fields of an AnalysisResult.
AnalysisResultFields == {"transcription", "sentiment", "keyPoints", "score"}

\* C27: every analysis call that ended returned a value with the four
\* fields of an AnalysisResult.
C27_ReturnsWellFormed ==
    \A i \in 1..Len(calls) :
        calls[i].done =>
            /\ ~calls[i].out.threw
            /\ DOMAIN calls[i].out.value = AnalysisResultFields

\* -------------------------------------------- Flow Definition Store claims

\* C10: the webhook URL of the stored flow is empty or begins with
\* "http://" or "https://".
C10_StoredEndpointEmptyOrHttp ==
    storage # << >> =>
        LET endpoint == JSONParseFlow(storage).webhookUrl
        IN \/ endpoint = << >>
           \/ StartsWith(endpoint, HTTP_SCHEME)
           \/ StartsWith(endpoint, HTTPS_SCHEME)

\* C11: a save attempted without a title or without a question raises the
\* alert, writes nothing (the stored flow and the flow in use are as they
\* were) and leaves AdminPanel open with its form as it was.
C11_InvalidSaveRejected ==
    [][(handleSave /\ (title = << >> \/ questions = << >>)) =>
          /\ storage' = storage
          /\ currentFlow' = currentFlow
          /\ mode' = "ADMIN"
          /\ adminForm' = adminForm
          /\ adminAlert' = TitleAlert]_vars

\* A save was just rejected for the missing title, over a stored flow and
\* with a question in the form.
C11_Witness ==
    /\ adminAlert = TitleAlert
    /\ mode = "ADMIN"
    /\ title = << >>
    /\ questions # << >>
    /\ storage # << >>

\* The form holds a valid flow: a title, a question, and a webhook URL
\* that is empty or begins with "http://" or "https://".
ValidForm ==
    /\ title # << >>
    /\ questions # << >>
    /\ \/ webhookUrl = << >>
       \/ StartsWith(webhookUrl, HTTP_SCHEME)
       \/ StartsWith(webhookUrl, HTTPS_SCHEME)

\* C12 as stated: a save of a valid form succeeds, and what loadFlow then
\* returns has the title, the webhook URL and the questions of the form.
C12_SaveLoadRoundTrip ==
    [][(handleSave /\ ValidForm) =>
          /\ mode' = "HOME"
          /\ storage' # << >>
          /\ loadFlow(storage').title = title
          /\ loadFlow(storage').webhookUrl = webhookUrl
          /\ loadFlow(storage').questions = questions]_vars

\* C12 amended: a save of a valid form succeeds, and what loadFlow then
\* returns has the title and the questions of the form, and its webhook
\* URL with the white space around it removed.
C12_SaveLoadRoundTripTrimmed ==
    [][(handleSave /\ ValidForm) =>
          /\ mode' = "HOME"
          /\ storage' # << >>
          /\ loadFlow(storage').title = title
          /\ loadFlow(storage').webhookUrl = Trim(webhookUrl)
          /\ loadFlow(storage').questions = questions]_vars

\* A flow of two questions with a webhook URL was saved, and loadFlow set
\* it as the flow in use of an interview.
C12_Witness ==
    /\ mode = "INTERVIEW"
    /\ storage # << >>
    /\ currentFlow = loadFlow(storage)
    /\ currentFlow.title = <<"T">>
    /\ currentFlow.webhookUrl = HTTPS_URL
    /\ Len(currentFlow.questions) >= 2

\* C28: in every step of the open AdminPanel the question ids stay
\* pairwise distinct; a step that makes the list longer appends one
\* question, of order (length before) + 1, and leaves the others as they
\* are; a step that makes it shorter takes out the question at one
\* position and leaves the others as they are, in their order; and
\* handleRemoveQuestion called with an id takes out exactly the question
\* of that id, every other question keeping its id, order, text, clip and
\* relative position.
C28_AddAndRemoveQuestions ==
    [][/\ (mode = "ADMIN" /\ mode' = "ADMIN") =>
             /\ \A j, k \in 1..Len(questions') :
                    j # k => questions'[j].id # questions'[k].id
             /\ Len(questions') > Len(questions) =>
                    /\ Len(questions') = Len(questions) + 1
                    /\ SubSeq(questions', 1, Len(questions)) = questions
                    /\ questions'[Len(questions')].order = Len(questions) + 1
             /\ Len(questions') < Len(questions) =>
                    \E k \in 1..Len(questions) : questions' = Without(questions, k)
             /\ Len(questions') = Len(questions) => questions' = questions
       /\ \A n \in 1..MaxUuids :
             handleRemoveQuestion(<<"uuid", n>>) =>
                 \E k \in 1..Len(questions) :
                     /\ questions[k].id = <<"uuid", n>>
                     /\ questions' = Without(questions, k)
                     /\ \A j \in 1..Len(questions') :
                            questions'[j].id # <<"uuid", n>>]_vars

\* After two adds, the removal of the first question and another add,
\* the list holds two questions of distinct ids and of the same order 2.
C28_Witness ==
    /\ mode = "ADMIN"
    /\ Len(questions) = 2
    /\ questions[1].order = 2
    /\ questions[2].order = 2
    /\ questions[1].id # questions[2].id


\* ------------------------------------------------ Session Orchestrator claims

\* The sessions started so far.
Sessions == 1..Len(posts)

\* The calls of handleNext in flight: of the mounted session, of the
\* unmounted ones.
InFlightHandlers ==
    (IF handler.pc = "idle" THEN << >> ELSE <<handler>>) \o orphans

\* C1: whenever onComplete has been invoked for a session, the
\* accumulator handleNext held has exactly one answer per question of the
\* flow, and the k-th answer carries the id of the k-th question,
\* whatever the analysis results were.
C1_DoneHoldsOneAnswerPerQuestion ==
    \A s \in Sessions :
        completed[s] > 0 =>
            /\ Len(doneAnswers[s]) = Len(flow.questions)
            /\ \A k \in 1..Len(flow.questions) :
                   doneAnswers[s][k].questionId = flow.questions[k].id

\* A session over at least two questions is Done, with a sentinel among its
\* analysis results and a well-formed one.
C1_Witness ==
    \E s \in Sessions :
        /\ completed[s] > 0
        /\ Len(flow.questions) >= 2
        /\ Len(doneAnswers[s]) = Len(flow.questions)
        /\ \E j, k \in 1..Len(doneAnswers[s]) :
               /\ doneAnswers[s][j].analysis = Sentinel
               /\ doneAnswers[s][k].analysis = GoodResult

\* C2: once the candidate has abandoned a session, no webhook request is
\* issued for it any more.
C2_NoPostAfterAbandon ==
    [][\A s \in Sessions : abandoned[s] => posts'[s] = posts[s]]_vars

\* C3: no session issues more than one webhook request; a session that is
\* Done over a flow with a webhook URL issued exactly one; and once the
\* request has ended, however it ended, the session is Done (once) and
\* none of its calls is in flight.
C3_PostedOnceAndDone ==
    \A s \in Sessions :
        /\ Len(posts[s]) <= 1
        /\ completed[s] <= 1
        /\ (completed[s] > 0 /\ flow.webhookUrl # << >>) => Len(posts[s]) = 1
        /\ webhookOutcome[s] # "none" =>
               /\ completed[s] = 1
               /\ \A i \in 1..Len(InFlightHandlers) :
                      InFlightHandlers[i].session # s

\* Two sessions are Done, each issued one webhook request, and the request
\* of the second failed.
C3_Witness ==
    /\ flow.webhookUrl # << >>
    /\ Len(posts) = 2
    /\ \A s \in Sessions : Len(posts[s]) = 1 /\ completed[s] = 1
    /\ webhookOutcome[2] \in {"status", "network"}

\* C13: in the sessions over a flow without a webhook URL no webhook
\* request is issued and none is waited for (the handler of the last
\* question calls onComplete as soon as the analysis is back).
C13_NoRequestWithoutEndpoint ==
    flow.webhookUrl = << >> =>
        /\ \A s \in Sessions : posts[s] = << >> /\ webhookOutcome[s] = "none"
        /\ \A i \in 1..Len(InFlightHandlers) :
               InFlightHandlers[i].pc # "submitting"

\* A session over two questions and without a webhook URL is Done, and no
\* request was issued.
C13_Witness ==
    \E s \in Sessions :
        /\ flow.webhookUrl = << >>
        /\ Len(flow.questions) >= 2
        /\ completed[s] = 1
        /\ Len(doneAnswers[s]) = Len(flow.questions)
        /\ posts[s] = << >>

\* The accumulator the webhook request of session s was built from: the
\* one its handler holds while the request is in flight, the one it passed
\* on to onComplete afterwards.
Accumulated(s) ==
    LET waiting == {i \in 1..Len(InFlightHandlers) :
                       /\ InFlightHandlers[i].session = s
                       /\ InFlightHandlers[i].pc = "submitting"}
    IN IF waiting = {} THEN doneAnswers[s]
       ELSE InFlightHandlers[CHOOSE i \in waiting : TRUE].answers

\* C14: the results of every webhook payload have one entry per
\* accumulated answer, in order, and entry k holds the id and the text of
\* question k and the analysis result of answer k.
C14_PayloadResults ==
    \A s \in Sessions :
        \A i \in 1..Len(posts[s]) :
            /\ Len(posts[s][i].results) = Len(Accumulated(s))
            /\ \A k \in 1..Len(Accumulated(s)) :
                   posts[s][i].results[k] =
                       [questionId |-> flow.questions[k].id,
                        questionText |-> flow.questions[k].text,
                        analysis |-> Accumulated(s)[k].analysis]

\* A payload over two questions was posted, with a sentinel and a
\* well-formed analysis result.
C14_Witness ==
    \E s \in Sessions :
        /\ Len(posts[s]) = 1
        /\ Len(posts[s][1].results) >= 2
        /\ posts[s][1].results[1].analysis = Sentinel
        /\ posts[s][1].results[2].analysis = GoodResult
        /\ posts[s][1].results[2].questionText = flow.questions[2].text

\* ------------------------------------------------------ Capture Unit claims

\* C5: no stream acquired by a VideoRecorder instance that is unmounted is
\* live.
C5_NoLiveStreamAfterTeardown == LiveOf("torn down") = 0

\* C6: the mounted VideoRecorder has at most one getUserMedia call
\* outstanding and at most one live stream.
C6_OneAcquisitionOneStream ==
    /\ pending.cur <= 1
    /\ LiveOf("mounted") <= 1

\* C7: no MediaRecorder called onRecordingComplete while the stream it
\* recorded was live.
C7_ReleasedBeforeHandoff ==
    \A r \in 1..Len(recorders) : recorders[r].handoff # "live"

\* C8: while the mounted VideoRecorder holds a finished clip (until Retake)
\* it holds no stream, none of its streams is live and it has no
\* getUserMedia call outstanding.
C8_NoStreamWhileClipHeld ==
    (RecorderMounted /\ rec.recordedBlob # 0) =>
        /\ rec.stream = 0
        /\ LiveOf("mounted") = 0
        /\ pending.cur = 0

\* C9: a recording in progress has not reached maxDurationSeconds: the
\* tick that takes the timer there stops it.
C9_StoppedWhenTimerReachesMax ==
    rec.isRecording => rec.timer < maxDurationSeconds

\* C15: no startRecording call returns without having started a recording:
\* a call made without a stream fails with an InvalidStateError.
C15_StartWithoutStreamFails == startResult # "returned"

\* The candidate asks for a new take: RETAKE VIDEO clears the held clip.
IsRetakeStep == rec.recordedBlob # 0 /\ rec'.recordedBlob = 0

\* C16: in every step of a mounted VideoRecorder: when an acquisition
\* fails (the error message appears) no stream is held, so that no
\* recording can be started, and no new acquisition is started; and while
\* the message is shown it stays shown and no acquisition is started,
\* unless the candidate asks for a new take.
C16_AfterFailedAcquisition ==
    [][(RecorderMounted /\ RecorderMounted') =>
          /\ (rec.error = "" /\ rec'.error # "") =>
                 (rec'.stream = 0 /\ pending'.cur < pending.cur)
          /\ (rec.error # "" /\ rec'.error = "") => IsRetakeStep
          /\ (rec.error # "" /\ pending'.cur > pending.cur) => IsRetakeStep]_vars

\* C16 without its first part: the message stays shown and the
\* VideoRecorder starts no acquisition on its own.
C16_MessageStaysNoRetry ==
    [][(RecorderMounted /\ RecorderMounted') =>
          /\ (rec.error = "" /\ rec'.error # "") => pending'.cur < pending.cur
          /\ (rec.error # "" /\ rec'.error = "") => IsRetakeStep
          /\ (rec.error # "" /\ pending'.cur > pending.cur) => IsRetakeStep]_vars

\* C17: the clip of every MediaRecorder is built from the chunks that
\* recorder recorded, and from no other.
C17_ClipHoldsOwnChunksOnly ==
    \A r \in 1..Len(recorders) :
        \A i \in 1..Len(recorders[r].chunks) : recorders[r].chunks[i] = r

\* Two takes of the first question were finalized, the second after a
\* Retake (the recorder is on the stream the Retake acquired), and the
\* recorder holds the clip of the second.
C17_Witness ==
    /\ RecorderMounted
    /\ currentQuestionIndex = 0
    /\ rec.stream = 2
    /\ Len(recorders) >= 2
    /\ recorders[1].chunks = <<1>>
    /\ recorders[2].chunks = <<2>>
    /\ rec.recordedBlob = 2

\* C18: whenever the session can start the analysis (it holds an answer
\* clip and is not processing), that clip is the finished clip its
\* VideoRecorder holds, and no recording is in progress.
C18_AnswerIsTheHeldClip ==
    (mode = "INTERVIEW" /\ ~isProcessing /\ currentAnswerBlob # 0) =>
        /\ rec.recordedBlob = currentAnswerBlob
        /\ ~rec.isRecording

\* C19: the answer clip the session holds while it awaits the answer to a
\* question was recorded by the VideoRecorder instance mounted for that
\* question.
C19_AnswerClipOfThisQuestion ==
    (mode = "INTERVIEW" /\ ~isProcessing /\ currentAnswerBlob # 0) =>
        recorders[currentAnswerBlob].mounted

\* C21: while a call of handleNext is in flight the session shows the
\* processing screen, on which no other call can be started, so that no
\* session has two calls in flight; and the analysis call for question i
\* is in flight only with the answers to the questions 0..i-1 appended,
\* in this order.
C21_OneAnalysisInFlight ==
    /\ (mode = "INTERVIEW" /\ handler.pc # "idle") => isProcessing
    /\ \A i, j \in 1..Len(InFlightHandlers) :
           InFlightHandlers[i].session = InFlightHandlers[j].session => i = j
    /\ \A i \in 1..Len(InFlightHandlers) :
           LET h == InFlightHandlers[i]
           IN h.pc = "analyzing" =>
                  /\ Len(h.answers) = h.index
                  /\ \A k \in 1..h.index :
                         h.answers[k].questionId = flow.questions[k].id
    /\ handler.pc = "analyzing" =>
           (answers = handler.answers /\ currentQuestionIndex = handler.index)

\* The analysis call for the second question is in flight.
C21_Witness ==
    /\ mode = "INTERVIEW"
    /\ handler.pc = "analyzing"
    /\ handler.index = 1
    /\ Len(answers) = 1

\* The session shows a question and waits for the candidate.
AwaitingAnswer == mode = "INTERVIEW" /\ ~isProcessing

\* Session s is the mounted one, and awaits an answer.
AwaitingAnswerOf(s) == AwaitingAnswer /\ session = s

\* Session s was started; the candidate left it; it called onComplete.
Started(s) == s \in Sessions
Abandoned(s) == s \in Sessions /\ abandoned[s]
Done(s) == s \in Sessions /\ completed[s] = 1

\* C22: when the candidate never leaves a session and answers every
\* question it shows (hands in a clip and clicks Next), the session comes
\* to call onComplete, whatever the analysis calls and the webhook
\* requests end with.
C22_SessionReachesDone ==
    \A s \in 1..MaxSessions :
        (/\ []~Abandoned(s)
         /\ (AwaitingAnswerOf(s) ~> ~AwaitingAnswerOf(s)))
        => (Started(s) ~> Done(s))

\* The call of handleNext that is in flight in the mounted session is in
\* flight after the step as it was before.
StaysUnresolved ==
    /\ handler.pc # "idle"
    /\ \/ handler' = handler
       \/ \E k \in 1..Len(orphans') : orphans'[k] = handler

\* C23: a step that leaves the call of handleNext of the mounted session
\* in flight unresolved changes neither the screen (processing), the
\* question index nor the accumulator of the session, unless it is the
\* candidate leaving the session.
C23_StallsUntilResolved ==
    [][(mode = "INTERVIEW" /\ StaysUnresolved) =>
          \/ abandoned'[session] /\ mode' = "HOME"
          \/ /\ handler' = handler
             /\ UNCHANGED <<mode, isProcessing, currentQuestionIndex, answers>>]_vars

\* C25: while the mounted VideoRecorder shows a recording in progress it
\* holds a live stream and no finished clip.
C25_RecordingHoldsStreamNoClip ==
    rec.isRecording =>
        /\ rec.stream \in DOMAIN streams
        /\ rec.recordedBlob = 0

\* What C24 asks of a step of a mounted VideoRecorder.
TimerStep ==
    /\ (~rec.isRecording /\ rec'.isRecording) => rec'.timer = 0
    /\ (rec.isRecording /\ rec'.isRecording /\ rec'.timer # rec.timer) =>
           rec'.timer = rec.timer + 1
    /\ (rec.isRecording /\ ~rec'.isRecording) => rec'.timer = rec.timer
    /\ (~rec.isRecording /\ ~rec'.isRecording /\ rec'.timer # rec.timer) =>
           (rec'.timer = 0 /\ IsRetakeStep)

\* C24: the timer of a VideoRecorder is never above maxDurationSeconds;
\* and in every step of a mounted VideoRecorder: a recording starts with
\* the timer at 0; while the recording goes on the timer changes only by
\* one second more; the stop leaves it as it is; and without a recording
\* it changes only to 0, by a Retake.
C24_TimerDiscipline ==
    [][/\ rec'.timer <= maxDurationSeconds
       /\ (RecorderMounted /\ RecorderMounted') => TimerStep]_vars

\* C24 in the steps taken while no clip is held during a recording.
C24_TimerDisciplineWithoutClip ==
    [][/\ rec'.timer <= maxDurationSeconds
       /\ (RecorderMounted /\ RecorderMounted' /\ C25_RecordingHoldsStreamNoClip) =>
              TimerStep]_vars

\* C26: the question index of a mounted session is an index of the flow's
\* question list, and while the session waits for an answer it holds as
\* many answers as the index says.
C26_IndexInRange ==
    mode = "INTERVIEW" =>
        /\ 0 <= currentQuestionIndex
        /\ currentQuestionIndex < Len(flow.questions)
        /\ AwaitingAnswer => Len(answers) = currentQuestionIndex

\* The session waits for the answer to the last of two questions, holding
\* the answer to the first.
C26_Witness ==
    /\ AwaitingAnswer
    /\ Len(flow.questions) = 2
    /\ currentQuestionIndex = 1
    /\ Len(answers) = 1


====
